---- MODULE Spec2Model ----
(***************************************************************************)
(* lazyollama: the session state (AppState), the key handler, the event    *)
(* handler, the background tasks and the control loop (run_app).           *)
(*                                                                         *)
(* Strings are sequences of characters; a character is a one-letter TLA+   *)
(* string.  Option<usize> is an Int with None = -1; Option<String> and     *)
(* Option<ShowModelResponse> are sequences with the empty sequence as      *)
(* None (names are never empty).  Message texts are short tags.            *)
(***************************************************************************)
EXTENDS Integers, Sequences, FiniteSets, TLC

(***************************************************************************)
(* Bounds of the model.                                                    *)
(***************************************************************************)
\* longest filter text typed into the local filter
MaxFilterLen == 2
\* longest filter text typed into the registry filter
MaxRegFilterLen == 1
\* number of background tasks that can be outstanding at once
MaxTasks == 2
\* number of models the daemon holds at start-up (a prefix of StartModels)
MaxModels == 3
\* number of tasks the user's key presses start in one run
MaxSpawns == 3

(***************************************************************************)
(* Characters and strings.                                                 *)
(***************************************************************************)
\* the characters the user types; E2 stands for a two-byte character
CharKeys == {"q", "d", "i", "h", "y", "/", "D", "E2"}
\* the characters typed while a filter prompt is open
FilterChars == {"d", "D", "h", "E2"}
SpecialKeys == {"Enter", "Esc", "Backspace", "Left", "Right", "Up", "Down", "CtrlC"}
Keys == CharKeys \cup SpecialKeys

\* Option<usize>::None
None == -1
\* Option<String>::None, Option<ShowModelResponse>::None
Nothing == << >>

Min(a, b) == IF a < b THEN a ELSE b

\* char::len_utf8
Utf8Len(c) == IF c = "E2" THEN 2 ELSE 1

\* str::len: the length in bytes
RECURSIVE ByteLen(_)
ByteLen(s) == IF s = << >> THEN 0 ELSE Utf8Len(Head(s)) + ByteLen(Tail(s))

\* byte offset at which the character after the first k characters starts
ByteOffset(s, k) == ByteLen(SubSeq(s, 1, k))

\* str::is_char_boundary
IsCharBoundary(s, idx) == \E k \in 0..Len(s) : ByteOffset(s, k) = idx

\* number of characters in front of a byte offset that is a char boundary
CharsBefore(s, idx) == CHOOSE k \in 0..Len(s) : ByteOffset(s, k) = idx

\* String::insert panics unless idx is a char boundary (<= len)
InsertPanics(s, idx) == ~IsCharBoundary(s, idx)
StringInsert(s, idx, c) ==
    LET k == CharsBefore(s, idx)
    IN SubSeq(s, 1, k) \o <<c>> \o SubSeq(s, k + 1, Len(s))

\* String::remove panics if idx >= len or idx is no char boundary
RemovePanics(s, idx) == idx >= ByteLen(s) \/ ~IsCharBoundary(s, idx)
StringRemove(s, idx) ==
    LET k == CharsBefore(s, idx)
    IN SubSeq(s, 1, k) \o SubSeq(s, k + 2, Len(s))

\* char::to_lowercase on the alphabet of the model
LowerChar(c) == IF c = "D" THEN "d" ELSE c
to_lowercase(s) == [i \in 1..Len(s) |-> LowerChar(s[i])]

\* str::contains
contains(hay, needle) ==
    \E i \in 0..(Len(hay) - Len(needle)) :
        SubSeq(hay, i + 1, i + Len(needle)) = needle

(***************************************************************************)
(* The world outside: daemon inventory and registry.                       *)
(***************************************************************************)
\* local model names the daemon holds at start-up
StartModels == << <<"d", "h">>, <<"h">>, <<"D">>, <<"h", "d">> >>
InitialInventory(k) ==
    {StartModels[i] : i \in 1..Min(k, Len(StartModels))}

\* registry_api::fetch_registry_models: sorted, non-empty on success
RegistryModels == << <<"d">>, <<"h">> >>
\* registry_api::fetch_registry_tags: "latest" first, non-empty on success
RegistryTags(m) == IF m = <<"d">> THEN << <<"l">>, <<"y">> >> ELSE << <<"l">> >>
\* the name under which `ollama pull model:tag` stores the model
PulledName(m, t) == m \o <<":">> \o t
\* every model the daemon can come to hold, in the order it lists them
KnownModels ==
    StartModels \o << PulledName(<<"d">>, <<"l">>), PulledName(<<"d">>, <<"y">>),
                      PulledName(<<"h">>, <<"l">>) >>
\* OllamaClient::list_models on success
ListModels(held) == SelectSeq(KnownModels, LAMBDA m : m \in held)

(***************************************************************************)
(* AppState (app.rs)                                                       *)
(***************************************************************************)
Modes == {"Normal", "Filter", "ConfirmDelete", "InstallSelectModel",
          "InstallSelectModelFilter", "InstallSelectTag", "InstallConfirm",
          "Installing", "RunningOllama", "Help"}

AppState_new ==
    [ models |-> << >>,
      filtered_models |-> << >>,
      list_state |-> None,
      selected_model_details |-> Nothing,
      status_message |-> "Loading",
      current_mode |-> "Normal",
      should_quit |-> FALSE,
      is_fetching_details |-> FALSE,
      filter_input |-> << >>,
      is_filtered |-> FALSE,
      filter_cursor_pos |-> 0,
      registry_models |-> << >>,
      filtered_registry_models |-> << >>,
      registry_tags |-> << >>,
      registry_model_list_state |-> None,
      registry_tag_list_state |-> None,
      selected_registry_model |-> Nothing,
      selected_registry_tag |-> Nothing,
      is_fetching_registry |-> FALSE,
      install_error |-> "None",
      install_status |-> "None",
      previous_mode |-> "None",
      registry_filter_input |-> << >>,
      is_registry_filtered |-> FALSE,
      registry_filter_cursor_pos |-> 0 ]

get_current_models(a) == IF a.is_filtered THEN a.filtered_models ELSE a.models

\* the models whose lower-cased name contains the lower-cased filter text
FilterByName(list, text) ==
    SelectSeq(list, LAMBDA m : contains(to_lowercase(m), to_lowercase(text)))

\* a faulty apply_filter: the visible sequence is recomputed, the selection kept
apply_filter_keeps_selection(a) ==
    IF a.filter_input = << >>
    THEN [a EXCEPT !.filtered_models = << >>, !.is_filtered = FALSE,
                   !.selected_model_details = Nothing]
    ELSE [a EXCEPT !.filtered_models = FilterByName(a.models, a.filter_input),
                   !.is_filtered = TRUE, !.selected_model_details = Nothing]

\* a faulty apply_filter: the matches are appended to the filtered sequence
\* instead of replacing it
apply_filter_appends(a) ==
    LET b == IF a.filter_input = << >>
             THEN [a EXCEPT !.filtered_models = << >>, !.is_filtered = FALSE]
             ELSE [a EXCEPT !.filtered_models =
                                a.filtered_models \o FilterByName(a.models, a.filter_input),
                            !.is_filtered = TRUE]
    IN IF get_current_models(b) = << >>
       THEN [b EXCEPT !.list_state = None, !.selected_model_details = Nothing]
       ELSE [b EXCEPT !.list_state = 0, !.selected_model_details = Nothing,
                      !.is_fetching_details = FALSE]

apply_filter(a) ==
    LET b == IF a.filter_input = << >>
             THEN [a EXCEPT !.filtered_models = << >>, !.is_filtered = FALSE]
             ELSE [a EXCEPT !.filtered_models = FilterByName(a.models, a.filter_input),
                            !.is_filtered = TRUE]
    IN IF get_current_models(b) = << >>
       THEN [b EXCEPT !.list_state = None, !.selected_model_details = Nothing]
       ELSE [b EXCEPT !.list_state = 0, !.selected_model_details = Nothing,
                      !.is_fetching_details = FALSE]

clear_filter(a) ==
    LET b == [a EXCEPT !.filter_input = << >>, !.filter_cursor_pos = 0,
                       !.is_filtered = FALSE, !.filtered_models = << >>]
    IN IF b.models = << >>
       THEN [b EXCEPT !.list_state = None]
       ELSE [b EXCEPT !.list_state = 0, !.selected_model_details = Nothing,
                      !.is_fetching_details = FALSE]

filter_input_char_panics(a, c) == InsertPanics(a.filter_input, a.filter_cursor_pos)
filter_input_char(a, c) ==
    apply_filter([a EXCEPT
        !.filter_input = StringInsert(a.filter_input, a.filter_cursor_pos, c),
        !.filter_cursor_pos = a.filter_cursor_pos + 1])

filter_input_backspace_panics(a) ==
    a.filter_cursor_pos > 0 /\ RemovePanics(a.filter_input, a.filter_cursor_pos - 1)
filter_input_backspace(a) ==
    IF a.filter_cursor_pos > 0
    THEN apply_filter([a EXCEPT
            !.filter_cursor_pos = a.filter_cursor_pos - 1,
            !.filter_input = StringRemove(a.filter_input, a.filter_cursor_pos - 1)])
    ELSE a

filter_cursor_left(a) ==
    IF a.filter_cursor_pos > 0
    THEN [a EXCEPT !.filter_cursor_pos = a.filter_cursor_pos - 1]
    ELSE a

filter_cursor_right(a) ==
    IF a.filter_cursor_pos < ByteLen(a.filter_input)
    THEN [a EXCEPT !.filter_cursor_pos = a.filter_cursor_pos + 1]
    ELSE a

\* a faulty select_and_prepare_fetch: only a changed index prepares a fetch,
\* a missing cached detail does not
select_and_prepare_fetch_index_only(a, index) ==
    LET current_models == get_current_models(a)
    IN IF current_models = << >>
       THEN [a EXCEPT !.list_state = None, !.selected_model_details = Nothing,
                      !.is_fetching_details = FALSE]
       ELSE LET valid_index == Min(IF index = None THEN 0 ELSE index,
                                   Len(current_models) - 1)
            IN IF a.list_state # valid_index
               THEN [a EXCEPT !.list_state = valid_index,
                              !.selected_model_details = Nothing,
                              !.status_message = "Fetching",
                              !.is_fetching_details = FALSE]
               ELSE a

select_and_prepare_fetch(a, index) ==
    LET current_models == get_current_models(a)
    IN IF current_models = << >>
       THEN [a EXCEPT !.list_state = None, !.selected_model_details = Nothing,
                      !.is_fetching_details = FALSE]
       ELSE LET valid_index == Min(IF index = None THEN 0 ELSE index,
                                   Len(current_models) - 1)
            IN IF a.list_state # valid_index \/ a.selected_model_details = Nothing
               THEN [a EXCEPT !.list_state = valid_index,
                              !.selected_model_details = Nothing,
                              !.status_message = "Fetching",
                              !.is_fetching_details = FALSE]
               ELSE a

\* usize::saturating_sub(1)
SaturatingPred(n) == IF n = 0 THEN 0 ELSE n - 1

\* A faulty next_model that stays on the last row instead of wrapping to the
\* first one.
next_model_saturating(a) ==
    LET current_models == get_current_models(a)
        i == IF a.list_state # None
             THEN (IF a.list_state >= SaturatingPred(Len(current_models))
                   THEN a.list_state ELSE a.list_state + 1)
             ELSE 0
    IN select_and_prepare_fetch(a, i)

next_model(a) ==
    LET current_models == get_current_models(a)
        i == IF a.list_state # None
             THEN (IF a.list_state >= SaturatingPred(Len(current_models))
                   THEN 0 ELSE a.list_state + 1)
             ELSE 0
    IN select_and_prepare_fetch(a, i)

previous_model(a) ==
    LET current_models == get_current_models(a)
        i == IF a.list_state # None
             THEN (IF a.list_state = 0
                   THEN SaturatingPred(Len(current_models)) ELSE a.list_state - 1)
             ELSE 0
    IN select_and_prepare_fetch(a, i)

get_selected_model_name(a) ==
    LET current_models == get_current_models(a)
    IN IF a.list_state # None /\ a.list_state < Len(current_models)
       THEN current_models[a.list_state + 1]
       ELSE Nothing

get_current_registry_models(a) ==
    IF a.is_registry_filtered THEN a.filtered_registry_models ELSE a.registry_models

apply_registry_filter(a) ==
    LET b == IF a.registry_filter_input = << >>
             THEN [a EXCEPT !.filtered_registry_models = << >>,
                            !.is_registry_filtered = FALSE]
             ELSE [a EXCEPT !.filtered_registry_models =
                                FilterByName(a.registry_models, a.registry_filter_input),
                            !.is_registry_filtered = TRUE]
    IN IF get_current_registry_models(b) = << >>
       THEN [b EXCEPT !.registry_model_list_state = None]
       ELSE [b EXCEPT !.registry_model_list_state = 0]

clear_registry_filter(a) ==
    LET b == [a EXCEPT !.registry_filter_input = << >>,
                       !.registry_filter_cursor_pos = 0,
                       !.is_registry_filtered = FALSE,
                       !.filtered_registry_models = << >>]
    IN IF b.registry_models = << >>
       THEN [b EXCEPT !.registry_model_list_state = None]
       ELSE [b EXCEPT !.registry_model_list_state = 0]

registry_filter_input_char_panics(a, c) ==
    InsertPanics(a.registry_filter_input, a.registry_filter_cursor_pos)
registry_filter_input_char(a, c) ==
    apply_registry_filter([a EXCEPT
        !.registry_filter_input =
            StringInsert(a.registry_filter_input, a.registry_filter_cursor_pos, c),
        !.registry_filter_cursor_pos = a.registry_filter_cursor_pos + 1])

registry_filter_input_backspace_panics(a) ==
    /\ a.registry_filter_cursor_pos > 0
    /\ RemovePanics(a.registry_filter_input, a.registry_filter_cursor_pos - 1)
registry_filter_input_backspace(a) ==
    IF a.registry_filter_cursor_pos > 0
    THEN apply_registry_filter([a EXCEPT
            !.registry_filter_cursor_pos = a.registry_filter_cursor_pos - 1,
            !.registry_filter_input =
                StringRemove(a.registry_filter_input, a.registry_filter_cursor_pos - 1)])
    ELSE a

registry_filter_cursor_left(a) ==
    IF a.registry_filter_cursor_pos > 0
    THEN [a EXCEPT !.registry_filter_cursor_pos = a.registry_filter_cursor_pos - 1]
    ELSE a

registry_filter_cursor_right(a) ==
    IF a.registry_filter_cursor_pos < ByteLen(a.registry_filter_input)
    THEN [a EXCEPT !.registry_filter_cursor_pos = a.registry_filter_cursor_pos + 1]
    ELSE a

is_global_key_handling_enabled(a) ==
    a.current_mode \notin {"RunningOllama", "Help", "Filter", "InstallSelectModelFilter"}

(***************************************************************************)
(* handle_key_event (handlers.rs).  The result carries the new state, the  *)
(* quit flag (Ok(true)) and the task the handler spawns, if any.           *)
(***************************************************************************)
NoSpawn == [kind |-> "none", arg |-> << >>]
KeyResult(a, quit, spawn) == [app |-> a, quit |-> quit, spawn |-> spawn]
Stay(a) == KeyResult(a, FALSE, NoSpawn)

\* (i + 1) % len, None => 0
WrapNext(sel, len) == IF sel = None THEN 0 ELSE (sel + 1) % len
\* (i + len - 1) % len, None => len - 1
WrapPrevious(sel, len) == IF sel = None THEN len - 1 ELSE (sel + len - 1) % len

\* a faulty key_Normal: Enter starts the run and leaves the mode Normal
key_Normal_run_stays_normal(key, a) ==
    CASE key = "q" -> KeyResult(a, TRUE, NoSpawn)
      [] key = "Down" -> Stay(next_model(a))
      [] key = "Up" -> Stay(previous_model(a))
      [] key = "/" ->
            Stay([a EXCEPT !.current_mode = "Filter", !.filter_input = << >>,
                           !.filter_cursor_pos = 0, !.status_message = "None"])
      [] key = "CtrlC" -> Stay(IF a.is_filtered THEN clear_filter(a) ELSE a)
      [] key = "d" ->
            Stay(IF a.list_state # None
                 THEN [a EXCEPT !.current_mode = "ConfirmDelete",
                                !.status_message = "None"]
                 ELSE a)
      [] key = "i" ->
            KeyResult([a EXCEPT !.current_mode = "InstallSelectModel",
                                !.is_fetching_registry = TRUE,
                                !.install_error = "None",
                                !.registry_models = << >>,
                                !.registry_model_list_state = None],
                      FALSE, [kind |-> "fetch_registry_models", arg |-> << >>])
      [] key = "Enter" ->
            LET name == get_selected_model_name(a)
            IN IF name # Nothing
               THEN KeyResult([a EXCEPT !.status_message = "None"],
                              FALSE, [kind |-> "run_ollama", arg |-> <<name>>])
               ELSE Stay(a)
      [] OTHER -> Stay(a)

key_Normal(key, a) ==
    CASE key = "q" -> KeyResult(a, TRUE, NoSpawn)
      [] key = "Down" -> Stay(next_model(a))
      [] key = "Up" -> Stay(previous_model(a))
      [] key = "/" ->
            Stay([a EXCEPT !.current_mode = "Filter", !.filter_input = << >>,
                           !.filter_cursor_pos = 0, !.status_message = "None"])
      [] key = "CtrlC" -> Stay(IF a.is_filtered THEN clear_filter(a) ELSE a)
      [] key = "d" ->
            Stay(IF a.list_state # None
                 THEN [a EXCEPT !.current_mode = "ConfirmDelete",
                                !.status_message = "None"]
                 ELSE a)
      [] key = "i" ->
            KeyResult([a EXCEPT !.current_mode = "InstallSelectModel",
                                !.is_fetching_registry = TRUE,
                                !.install_error = "None",
                                !.registry_models = << >>,
                                !.registry_model_list_state = None],
                      FALSE, [kind |-> "fetch_registry_models", arg |-> << >>])
      [] key = "Enter" ->
            LET name == get_selected_model_name(a)
            IN IF name # Nothing
               THEN KeyResult([a EXCEPT !.current_mode = "RunningOllama",
                                        !.status_message = "None"],
                              FALSE, [kind |-> "run_ollama", arg |-> <<name>>])
               ELSE Stay(a)
      [] OTHER -> Stay(a)

\* a faulty key_Filter: confirm clears the filter as cancel does
key_Filter_confirm_clears(key, a) ==
    CASE key = "CtrlC" ->
            Stay(apply_filter([a EXCEPT !.filter_input = << >>,
                                         !.filter_cursor_pos = 0]))
      [] key \in CharKeys -> Stay(filter_input_char(a, key))
      [] key = "Backspace" -> Stay(filter_input_backspace(a))
      [] key = "Left" -> Stay(filter_cursor_left(a))
      [] key = "Right" -> Stay(filter_cursor_right(a))
      [] key = "Enter" ->
            Stay([clear_filter(a) EXCEPT !.current_mode = "Normal",
                                         !.status_message =
                                             IF a.is_filtered THEN "Filter" ELSE "None"])
      [] key = "Esc" ->
            Stay([clear_filter(a) EXCEPT !.current_mode = "Normal",
                                         !.status_message = "FilterCleared"])
      [] OTHER -> Stay(a)

key_Filter(key, a) ==
    CASE key = "CtrlC" ->
            Stay(apply_filter([a EXCEPT !.filter_input = << >>,
                                         !.filter_cursor_pos = 0]))
      [] key \in CharKeys -> Stay(filter_input_char(a, key))
      [] key = "Backspace" -> Stay(filter_input_backspace(a))
      [] key = "Left" -> Stay(filter_cursor_left(a))
      [] key = "Right" -> Stay(filter_cursor_right(a))
      [] key = "Enter" ->
            Stay([a EXCEPT !.current_mode = "Normal",
                           !.status_message =
                               IF a.is_filtered THEN "Filter" ELSE "None"])
      [] key = "Esc" ->
            Stay([clear_filter(a) EXCEPT !.current_mode = "Normal",
                                         !.status_message = "FilterCleared"])
      [] OTHER -> Stay(a)

\* a faulty key_ConfirmDelete: 'yes' deletes the first visible model, not
\* the selected one
key_ConfirmDelete_first_model(key, a) ==
    CASE key = "y" ->
            LET name == IF get_current_models(a) # << >>
                        THEN get_current_models(a)[1] ELSE Nothing
            IN IF name # Nothing
               THEN KeyResult([a EXCEPT !.status_message = "Deleting",
                                        !.current_mode = "Normal"],
                              FALSE, [kind |-> "delete_model", arg |-> <<name>>])
               ELSE Stay([a EXCEPT !.current_mode = "Normal"])
      [] key = "Esc" ->
            Stay([a EXCEPT !.current_mode = "Normal", !.status_message = "None"])
      [] OTHER -> Stay(a)

key_ConfirmDelete(key, a) ==
    CASE key = "y" ->
            LET name == get_selected_model_name(a)
            IN IF name # Nothing
               THEN KeyResult([a EXCEPT !.status_message = "Deleting",
                                        !.current_mode = "Normal"],
                              FALSE, [kind |-> "delete_model", arg |-> <<name>>])
               ELSE Stay([a EXCEPT !.current_mode = "Normal"])
      [] key = "Esc" ->
            Stay([a EXCEPT !.current_mode = "Normal", !.status_message = "None"])
      [] OTHER -> Stay(a)

key_InstallSelectModel(key, a) ==
    CASE key = "/" ->
            Stay([a EXCEPT !.current_mode = "InstallSelectModelFilter",
                           !.registry_filter_input = << >>,
                           !.registry_filter_cursor_pos = 0,
                           !.install_error = "None"])
      [] key = "CtrlC" ->
            Stay(IF a.is_registry_filtered THEN clear_registry_filter(a) ELSE a)
      [] key = "Down" ->
            LET len == Len(get_current_registry_models(a))
            IN Stay(IF len > 0
                    THEN [a EXCEPT !.registry_model_list_state =
                                       WrapNext(a.registry_model_list_state, len)]
                    ELSE a)
      [] key = "Up" ->
            LET len == Len(get_current_registry_models(a))
            IN Stay(IF len > 0
                    THEN [a EXCEPT !.registry_model_list_state =
                                       WrapPrevious(a.registry_model_list_state, len)]
                    ELSE a)
      [] key = "Enter" ->
            LET sel == a.registry_model_list_state
                list == get_current_registry_models(a)
            IN IF sel # None /\ sel < Len(list)
               THEN KeyResult([a EXCEPT !.selected_registry_model = list[sel + 1],
                                        !.current_mode = "InstallSelectTag",
                                        !.is_fetching_registry = TRUE,
                                        !.install_error = "None",
                                        !.registry_tags = << >>,
                                        !.registry_tag_list_state = None],
                              FALSE,
                              [kind |-> "fetch_registry_tags", arg |-> <<list[sel + 1]>>])
               ELSE Stay(a)
      [] key \in {"q", "Esc"} ->
            Stay(clear_registry_filter([a EXCEPT !.current_mode = "Normal",
                                                 !.install_error = "None",
                                                 !.is_fetching_registry = FALSE]))
      [] OTHER -> Stay(a)

key_InstallSelectTag(key, a) ==
    CASE key = "Down" ->
            LET len == Len(a.registry_tags)
            IN Stay(IF len > 0
                    THEN [a EXCEPT !.registry_tag_list_state =
                                       WrapNext(a.registry_tag_list_state, len)]
                    ELSE a)
      [] key = "Up" ->
            LET len == Len(a.registry_tags)
            IN Stay(IF len > 0
                    THEN [a EXCEPT !.registry_tag_list_state =
                                       WrapPrevious(a.registry_tag_list_state, len)]
                    ELSE a)
      [] key = "Enter" ->
            LET sel == a.registry_tag_list_state
            IN Stay(IF sel # None /\ sel < Len(a.registry_tags)
                    THEN [a EXCEPT !.selected_registry_tag = a.registry_tags[sel + 1],
                                   !.current_mode = "InstallConfirm",
                                   !.install_error = "None"]
                    ELSE a)
      [] key \in {"q", "Esc"} ->
            Stay([a EXCEPT !.current_mode = "InstallSelectModel",
                           !.selected_registry_model = Nothing,
                           !.registry_tags = << >>,
                           !.install_error = "None",
                           !.is_fetching_registry = FALSE])
      [] OTHER -> Stay(a)

key_InstallConfirm(key, a) ==
    CASE key = "y" ->
            IF a.selected_registry_model # Nothing /\ a.selected_registry_tag # Nothing
            THEN KeyResult([a EXCEPT !.current_mode = "Installing",
                                     !.install_status = "Pulling",
                                     !.install_error = "None"],
                           FALSE,
                           [kind |-> "pull_model",
                            arg |-> <<a.selected_registry_model,
                                      a.selected_registry_tag>>])
            ELSE Stay([a EXCEPT !.install_error = "NotSelected",
                                !.current_mode = "InstallSelectTag"])
      [] key = "Esc" ->
            Stay([a EXCEPT !.current_mode = "InstallSelectTag",
                           !.selected_registry_tag = Nothing,
                           !.install_error = "None"])
      [] OTHER -> Stay(a)

key_InstallSelectModelFilter(key, a) ==
    CASE key = "CtrlC" ->
            Stay(apply_registry_filter([a EXCEPT !.registry_filter_input = << >>,
                                                  !.registry_filter_cursor_pos = 0]))
      [] key \in CharKeys -> Stay(registry_filter_input_char(a, key))
      [] key = "Backspace" -> Stay(registry_filter_input_backspace(a))
      [] key = "Left" -> Stay(registry_filter_cursor_left(a))
      [] key = "Right" -> Stay(registry_filter_cursor_right(a))
      [] key = "Enter" ->
            Stay([a EXCEPT !.current_mode = "InstallSelectModel",
                           !.install_error =
                               IF a.is_registry_filtered THEN "Filter" ELSE "None"])
      [] key = "Esc" ->
            Stay([clear_registry_filter(a) EXCEPT
                     !.current_mode = "InstallSelectModel",
                     !.install_error = "FilterCleared"])
      [] OTHER -> Stay(a)

\* a faulty key_Help: dismissing always returns to Normal
key_Help_to_Normal(key, a) ==
    IF key \in {"h", "q", "Esc"}
    THEN Stay([a EXCEPT !.current_mode = "Normal",
                        !.previous_mode = "None",
                        !.status_message = "None"])
    ELSE Stay(a)

key_Help(key, a) ==
    IF key \in {"h", "q", "Esc"}
    THEN Stay([a EXCEPT !.current_mode =
                            IF a.previous_mode # "None" THEN a.previous_mode
                            ELSE "Normal",
                        !.previous_mode = "None",
                        !.status_message = "None"])
    ELSE Stay(a)

\* the calls of handle_key_event that panic: String::insert / String::remove
\* off a char boundary, and the unreachable!() of the RunningOllama arm
handle_key_event_panics(key, a) ==
    \/ a.current_mode = "RunningOllama"
    \/ /\ a.current_mode = "Filter"
       /\ \/ key \in CharKeys /\ filter_input_char_panics(a, key)
          \/ key = "Backspace" /\ filter_input_backspace_panics(a)
    \/ /\ a.current_mode = "InstallSelectModelFilter"
       /\ \/ key \in CharKeys /\ registry_filter_input_char_panics(a, key)
          \/ key = "Backspace" /\ registry_filter_input_backspace_panics(a)

handle_key_event(key, a) ==
    IF is_global_key_handling_enabled(a) /\ key = "h"
    THEN Stay([a EXCEPT !.previous_mode = a.current_mode,
                        !.current_mode = "Help",
                        !.status_message = "None"])
    ELSE CASE a.current_mode = "Normal" -> key_Normal(key, a)
           [] a.current_mode = "Filter" -> key_Filter(key, a)
           [] a.current_mode = "ConfirmDelete" -> key_ConfirmDelete(key, a)
           [] a.current_mode = "InstallSelectModel" -> key_InstallSelectModel(key, a)
           [] a.current_mode = "InstallSelectTag" -> key_InstallSelectTag(key, a)
           [] a.current_mode = "InstallConfirm" -> key_InstallConfirm(key, a)
           [] a.current_mode = "Installing" -> Stay(a)
           [] a.current_mode = "InstallSelectModelFilter" ->
                  key_InstallSelectModelFilter(key, a)
           [] a.current_mode = "Help" -> key_Help(key, a)
           [] OTHER -> Stay(a)

(***************************************************************************)
(* Completion events (events.rs) and handle_app_event (handlers.rs).       *)
(* payload: the model whose details were fetched, or the delivered list;   *)
(* src: the task that sent the event (kind and arguments).                 *)
(***************************************************************************)
Event(type, ok, payload, src) ==
    [type |-> type, ok |-> ok, payload |-> payload, src |-> src]

\* a faulty ModelDetailsFetched arm: a failed fetch also falls back to Normal
model_details_fetched_to_normal(ev, a) ==
    IF ev.ok
    THEN [a EXCEPT !.is_fetching_details = FALSE,
                   !.selected_model_details = ev.payload,
                   !.status_message = "None"]
    ELSE [a EXCEPT !.is_fetching_details = FALSE,
                   !.selected_model_details = Nothing,
                   !.status_message = "ErrDetails",
                   !.current_mode = "Normal"]

\* handle_app_event, the AppEvent::ModelDetailsFetched arm
model_details_fetched(ev, a) ==
    IF ev.ok
    THEN [a EXCEPT !.is_fetching_details = FALSE,
                   !.selected_model_details = ev.payload,
                   !.status_message = "None"]
    ELSE [a EXCEPT !.is_fetching_details = FALSE,
                   !.selected_model_details = Nothing,
                   !.status_message = "ErrDetails"]

\* a faulty RegistryTagsFetched arm: a failed fetch sets the error but
\* leaves the mode
registry_tags_fetched_keeps_mode(ev, a) ==
    IF ev.ok
    THEN LET b == [a EXCEPT !.is_fetching_registry = FALSE,
                            !.registry_tags = ev.payload]
             c == IF b.registry_tags # << >>
                  THEN [b EXCEPT !.registry_tag_list_state = 0]
                  ELSE [b EXCEPT !.registry_tag_list_state = None,
                                 !.install_error = "NoTags",
                                 !.current_mode = "InstallSelectModel"]
         IN [c EXCEPT !.install_error = "None"]
    ELSE [a EXCEPT !.is_fetching_registry = FALSE,
                   !.install_error = "FetchTagsFailed"]

\* handle_app_event, the AppEvent::RegistryTagsFetched arm
registry_tags_fetched(ev, a) ==
    IF ev.ok
    THEN LET b == [a EXCEPT !.is_fetching_registry = FALSE,
                            !.registry_tags = ev.payload]
             c == IF b.registry_tags # << >>
                  THEN [b EXCEPT !.registry_tag_list_state = 0]
                  ELSE [b EXCEPT !.registry_tag_list_state = None,
                                 !.install_error = "NoTags",
                                 !.current_mode = "InstallSelectModel"]
         IN [c EXCEPT !.install_error = "None"]
    ELSE [a EXCEPT !.is_fetching_registry = FALSE,
                   !.install_error = "FetchTagsFailed",
                   !.current_mode = "InstallSelectModel"]

\* a faulty LocalModelsRefreshed arm: the filter is not applied to the new
\* inventory
local_models_refreshed_keeps_filtered(ev, a) ==
    LET b == IF ev.ok
             THEN LET old_selection_index == a.list_state
                      m == [a EXCEPT !.models = ev.payload]
                      f == m
                      current_models == get_current_models(f)
                      new_selection ==
                          IF current_models = << >> THEN None
                          ELSE Min(IF old_selection_index = None THEN 0
                                   ELSE old_selection_index,
                                   SaturatingPred(Len(current_models)))
                      s == select_and_prepare_fetch(f, new_selection)
                  IN IF s.status_message = "PullOk"
                     THEN [s EXCEPT !.status_message = "None"]
                     ELSE s
             ELSE IF a.install_error = "None"
                  THEN [a EXCEPT !.status_message = "ErrRefresh"]
                  ELSE a
    IN [b EXCEPT !.current_mode = "Normal", !.install_status = "None"]

\* handle_app_event, the AppEvent::LocalModelsRefreshed arm
local_models_refreshed(ev, a) ==
    LET b == IF ev.ok
             THEN LET old_selection_index == a.list_state
                      m == [a EXCEPT !.models = ev.payload]
                      f == IF m.is_filtered THEN apply_filter(m) ELSE m
                      current_models == get_current_models(f)
                      new_selection ==
                          IF current_models = << >> THEN None
                          ELSE Min(IF old_selection_index = None THEN 0
                                   ELSE old_selection_index,
                                   SaturatingPred(Len(current_models)))
                      s == select_and_prepare_fetch(f, new_selection)
                  IN IF s.status_message = "PullOk"
                     THEN [s EXCEPT !.status_message = "None"]
                     ELSE s
             ELSE IF a.install_error = "None"
                  THEN [a EXCEPT !.status_message = "ErrRefresh"]
                  ELSE a
    IN [b EXCEPT !.current_mode = "Normal", !.install_status = "None"]

handle_app_event(ev, a) ==
    CASE ev.type = "ModelDetailsFetched" -> model_details_fetched(ev, a)
      [] ev.type = "RegistryModelsFetched" ->
            IF ev.ok
            THEN LET b == [a EXCEPT !.is_fetching_registry = FALSE,
                                    !.registry_models = ev.payload]
                     c == IF b.is_registry_filtered THEN apply_registry_filter(b)
                          ELSE IF b.registry_models # << >>
                               THEN [b EXCEPT !.registry_model_list_state = 0]
                               ELSE [b EXCEPT !.registry_model_list_state = None]
                 IN [c EXCEPT !.install_error = "None"]
            ELSE [a EXCEPT !.is_fetching_registry = FALSE,
                           !.install_error = "FetchModelsFailed",
                           !.current_mode = "Normal"]
      [] ev.type = "RegistryTagsFetched" -> registry_tags_fetched(ev, a)
      [] ev.type = "ModelPullCompleted" ->
            LET b == IF ev.ok
                     THEN [a EXCEPT !.install_status = "None",
                                    !.status_message = "PullOk"]
                     ELSE [a EXCEPT !.install_status = "None",
                                    !.install_error = "PullFailed",
                                    !.current_mode = "Normal"]
            IN [b EXCEPT !.selected_registry_model = Nothing,
                         !.selected_registry_tag = Nothing]
      [] ev.type = "LocalModelsRefreshed" -> local_models_refreshed(ev, a)
      [] OTHER -> [a EXCEPT !.current_mode = "Normal"]

\* a faulty handle_ollama_run_completion: a failed run keeps the mode
handle_ollama_run_completion_keeps_mode(ok, a) ==
    IF ok THEN [a EXCEPT !.current_mode = "Normal", !.status_message = "None"]
    ELSE [a EXCEPT !.status_message = "ErrRun"]

\* main.rs, RunningOllama branch: the run-completion event
handle_ollama_run_completion(ok, a) ==
    [a EXCEPT !.current_mode = "Normal",
              !.status_message = IF ok THEN "None" ELSE "ErrRun"]

(***************************************************************************)
(* The running program: control loop (main.rs run_app), background tasks   *)
(* (tasks.rs), the completion channel, the terminal, the daemon.           *)
(***************************************************************************)
VARIABLES
    user,       \* what the user and the environment do in this run
    spawns,     \* number of tasks the key handler has spawned
    app,        \* the AppState owned by run_app
    loopPc,     \* "start", "top", "recv", "exited", "panicked"; with the
                \* errors of ExitSpec also "failed" and "ended"
    tasks,      \* the spawned tasks, by slot
    chan,       \* the mpsc channel of completion events
    daemon,     \* the models the local daemon holds
    term,       \* the terminal: raw mode on, alternate screen entered
    failed_for, \* history: the selected model whose detail fetch failed last
    help        \* history: the mode Help was opened from, whether an event
                \* was handled while it was shown, whether a key dismissed it

vars == <<user, spawns, app, loopPc, tasks, chan, daemon, term, failed_for, help>>

\* the Help screen has not been opened, or its history is over
NoHelp == [from |-> "None", events |-> FALSE, dismissed |-> FALSE]

\* history of the Help screen across a key handled in state a with result b
HelpAfterKey(h, a, b) ==
    IF a.current_mode # "Help"
    THEN IF b.current_mode = "Help"
         THEN [from |-> a.current_mode, events |-> FALSE, dismissed |-> FALSE]
         ELSE NoHelp
    ELSE IF b.current_mode = "Help" THEN h ELSE [h EXCEPT !.dismissed = TRUE]

\* history of the Help screen across an event handled in state a with result b
HelpAfterEvent(h, a, b) ==
    IF a.current_mode = "Help" /\ b.current_mode = "Help"
    THEN [h EXCEPT !.events = TRUE]
    ELSE NoHelp

TaskSlots == 1..MaxTasks
NoTask == [kind |-> "none", arg |-> << >>, pc |-> "none", sent |-> 0]
FreeSlots(ts) == {s \in TaskSlots : ts[s].kind = "none"}
LowestFree(ts) == CHOOSE s \in FreeSlots(ts) : \A r \in FreeSlots(ts) : s <= r

\* tokio::spawn of the task a handler asks for
Spawn(ts, sp) ==
    IF sp.kind = "none" THEN ts
    ELSE [ts EXCEPT ![LowestFree(ts)] =
              [kind |-> sp.kind, arg |-> sp.arg, pc |-> "start", sent |-> 0]]
\* MaxTasks bounds the tasks whose completion the loop has not yet taken
Outstanding == Cardinality(TaskSlots \ FreeSlots(tasks)) + Len(chan)


AppTerminal == [raw |-> TRUE, alt |-> TRUE]

\* tui::suspend_tui: disable_raw_mode()?, then LeaveAlternateScreen?
suspend_tui(t) ==
    { [ok |-> FALSE, term |-> t],
      [ok |-> FALSE, term |-> [t EXCEPT !.raw = FALSE]],
      [ok |-> TRUE, term |-> [raw |-> FALSE, alt |-> FALSE]] }
\* the outcomes the environment of this run produces
Outcomes(set) == IF user.term_fails THEN set ELSE {o \in set : o.ok}

\* tui::resume_tui: EnterAlternateScreen?, then enable_raw_mode()?
resume_tui(t) ==
    { [ok |-> FALSE, term |-> t],
      [ok |-> FALSE, term |-> [t EXCEPT !.alt = TRUE]],
      [ok |-> TRUE, term |-> [raw |-> TRUE, alt |-> TRUE]] }

Running == loopPc \in {"start", "top", "recv"}

\* The runs the model explores: the keys the user presses and whether
\* terminal I/O and daemon calls can fail.
Profiles ==
    { [name |-> "browse", models |-> MaxModels, spawns |-> 0,
       keys |-> {"/", "d", "D", "E2", "Backspace", "Left", "Right",
                 "CtrlC", "Enter", "Esc", "Up", "Down"},
       term_fails |-> FALSE],
      [name |-> "delete", models |-> 2, spawns |-> MaxSpawns,
       keys |-> {"d", "y", "Esc", "Enter", "Down", "q"},
       term_fails |-> FALSE],
      [name |-> "confirm", models |-> 2, spawns |-> 1,
       keys |-> {"d", "y", "h", "Down"},
       term_fails |-> FALSE],
      [name |-> "run", models |-> 1, spawns |-> MaxSpawns,
       keys |-> {"Enter", "Down", "q", "h", "d", "Esc"},
       term_fails |-> TRUE],
      [name |-> "install", models |-> 0, spawns |-> MaxSpawns,
       keys |-> {"i", "Enter", "Esc", "Down", "Up", "y", "q", "h"},
       term_fails |-> FALSE],
      [name |-> "mixed", models |-> 1, spawns |-> MaxSpawns + 3,
       keys |-> {"d", "y", "i", "Enter"},
       term_fails |-> FALSE],
      [name |-> "search", models |-> 0, spawns |-> 2,
       keys |-> {"i", "/", "E2", "h", "Enter", "Esc", "Down",
                 "Backspace", "Left", "Right", "CtrlC"},
       term_fails |-> FALSE] }

Init ==
    /\ user \in Profiles
    /\ spawns = 0
    /\ app = AppState_new
    /\ loopPc = "start"
    /\ tasks = [s \in TaskSlots |-> NoTask]
    /\ chan = << >>
    /\ daemon \in {{}, InitialInventory(user.models)}
    /\ term = AppTerminal
    /\ failed_for = Nothing
    /\ help = NoHelp

\* run_app, before the loop: the initial client.list_models()
InitialLoad ==
    /\ loopPc = "start"
    /\ \E ok \in BOOLEAN :
          app' = IF ok
                 THEN [app EXCEPT !.models = ListModels(daemon),
                                  !.list_state = IF daemon # {} THEN 0 ELSE None,
                                  !.selected_model_details = Nothing,
                                  !.is_fetching_details = FALSE,
                                  !.status_message = "None"]
                 ELSE [app EXCEPT !.status_message = "ErrLoad"]
    /\ loopPc' = "top"
    /\ UNCHANGED <<user, spawns, tasks, chan, daemon, term, failed_for, help>>

\* the condition under which the loop starts a detail fetch
NeedsDetailFetch(a) ==
    /\ a.current_mode # "RunningOllama"
    /\ a.list_state # None
    /\ a.selected_model_details = Nothing
    /\ ~a.is_fetching_details
    /\ get_selected_model_name(a) # Nothing

\* top of the loop, after terminal.draw: the conditional detail fetch
StartDetailFetch(a) ==
    IF NeedsDetailFetch(a)
    THEN [app |-> [a EXCEPT !.is_fetching_details = TRUE,
                            !.status_message = "Fetching"],
          spawn |-> [kind |-> "fetch_model_details",
                     arg |-> <<get_selected_model_name(a)>>]]
    ELSE [app |-> a, spawn |-> NoSpawn]

\* One iteration outside RunningOllama is one step: the draw, the
\* conditional detail fetch, then the select! branch that wins.
IterationStart ==
    /\ loopPc = "top"
    /\ app.current_mode # "RunningOllama"
    /\ StartDetailFetch(app).spawn.kind # "none" => Outstanding < MaxTasks

\* the keys the model lets the user press in the current state
KeyAllowed(key, a) ==
    /\ (a.current_mode = "Filter" /\ key \in CharKeys) =>
           key \in FilterChars /\ Len(a.filter_input) < MaxFilterLen
    /\ (a.current_mode = "InstallSelectModelFilter" /\ key \in CharKeys) =>
           key \in FilterChars /\ Len(a.registry_filter_input) < MaxRegFilterLen

\* select! branch 1: the poll delivered a key press
LoopKey ==
    /\ IterationStart
    /\ LET top == StartDetailFetch(app)
           started == Spawn(tasks, top.spawn)
       IN \E key \in user.keys :
             /\ KeyAllowed(key, top.app)
             /\ IF handle_key_event_panics(key, top.app)
                THEN /\ loopPc' = "panicked"
                     /\ app' = top.app
                     /\ tasks' = started
                     /\ UNCHANGED <<spawns, failed_for, help>>
                ELSE LET r == handle_key_event(key, top.app)
                     IN /\ r.spawn.kind # "none" =>
                              /\ spawns < user.spawns
                              /\ Outstanding + (IF top.spawn.kind # "none" THEN 1 ELSE 0)
                                    < MaxTasks
                        /\ spawns' = IF r.spawn.kind # "none" THEN spawns + 1 ELSE spawns
                        /\ app' = [r.app EXCEPT !.should_quit = r.quit]
                        /\ tasks' = Spawn(started, r.spawn)
                        /\ loopPc' = IF r.quit THEN "exited" ELSE "top"
                        /\ failed_for' =
                              IF get_selected_model_name(r.app) = failed_for
                              THEN failed_for ELSE Nothing
                        /\ help' = HelpAfterKey(help, top.app, r.app)
    /\ UNCHANGED <<user, chan, daemon, term>>

\* select! branch 1: the poll timed out, or delivered no key event
LoopPollTimeout ==
    /\ IterationStart
    /\ app' = StartDetailFetch(app).app
    /\ tasks' = Spawn(tasks, StartDetailFetch(app).spawn)
    /\ UNCHANGED <<user, spawns, loopPc, chan, daemon, term, failed_for, help>>

\* select! branch 2: a completion event from the channel
LoopEvent ==
    /\ IterationStart
    /\ chan # << >>
    /\ IF Head(chan).type = "OllamaRunCompleted"
       THEN loopPc' = "panicked" /\ app' = StartDetailFetch(app).app
       ELSE /\ app' = handle_app_event(Head(chan), StartDetailFetch(app).app)
            /\ loopPc' = "top"
    /\ tasks' = Spawn(tasks, StartDetailFetch(app).spawn)
    /\ chan' = Tail(chan)
    /\ failed_for' =
          LET ev == Head(chan)
          IN IF ev.type = "ModelDetailsFetched" /\ ~ev.ok
                /\ ev.src.arg[1] = get_selected_model_name(app)
             THEN ev.src.arg[1]
             ELSE IF ev.type = "LocalModelsRefreshed"
                     \/ get_selected_model_name(app') # failed_for
                  THEN Nothing
                  ELSE failed_for
    /\ help' = HelpAfterEvent(help, app, app')
    /\ UNCHANGED <<user, spawns, daemon, term>>

\* RunningOllama: the draw at the top of the loop, then rx.recv().await
LoopDrawRunning ==
    /\ loopPc = "top"
    /\ app.current_mode = "RunningOllama"
    /\ loopPc' = "recv"
    /\ UNCHANGED <<user, spawns, app, tasks, chan, daemon, term, failed_for, help>>

\* RunningOllama branch: the event received; every event other than the
\* run completion is dropped
LoopRecvRunning ==
    /\ loopPc = "recv"
    /\ chan # << >>
    /\ app' = IF Head(chan).type = "OllamaRunCompleted"
              THEN handle_ollama_run_completion(Head(chan).ok, app)
              ELSE app
    /\ chan' = Tail(chan)
    /\ loopPc' = "top"
    /\ UNCHANGED <<user, spawns, tasks, daemon, term, failed_for, help>>

(***************************************************************************)
(* Background tasks (tasks.rs; the detail fetch is spawned in run_app).    *)
(***************************************************************************)
Finish(s) == [tasks EXCEPT ![s] = NoTask]
Src(s) == [kind |-> tasks[s].kind, arg |-> tasks[s].arg]

\* a faulty fetch_model_details: the task clears the in-flight flag itself
fetch_model_details_writes_state(s) ==
    /\ Running
    /\ tasks[s].kind = "fetch_model_details"
    /\ \E ok \in BOOLEAN :
          /\ ok => tasks[s].arg[1] \in daemon
          /\ chan' = Append(chan, Event("ModelDetailsFetched", ok,
                                        IF ok THEN tasks[s].arg[1] ELSE Nothing,
                                        Src(s)))
    /\ app' = [app EXCEPT !.is_fetching_details = FALSE]
    /\ tasks' = Finish(s)
    /\ UNCHANGED <<user, spawns, loopPc, daemon, term, failed_for, help>>

fetch_model_details(s) ==
    /\ Running
    /\ tasks[s].kind = "fetch_model_details"
    /\ \E ok \in BOOLEAN :
          /\ ok => tasks[s].arg[1] \in daemon
          /\ chan' = Append(chan, Event("ModelDetailsFetched", ok,
                                        IF ok THEN tasks[s].arg[1] ELSE Nothing,
                                        Src(s)))
    /\ tasks' = Finish(s)
    /\ UNCHANGED <<user, spawns, app, loopPc, daemon, term, failed_for, help>>

fetch_registry_models(s) ==
    /\ Running
    /\ tasks[s].kind = "fetch_registry_models"
    /\ \E ok \in BOOLEAN :
          chan' = Append(chan, Event("RegistryModelsFetched", ok,
                                     IF ok THEN RegistryModels ELSE << >>, Src(s)))
    /\ tasks' = Finish(s)
    /\ UNCHANGED <<user, spawns, app, loopPc, daemon, term, failed_for, help>>

fetch_registry_tags(s) ==
    /\ Running
    /\ tasks[s].kind = "fetch_registry_tags"
    /\ \E ok \in BOOLEAN :
          chan' = Append(chan, Event("RegistryTagsFetched", ok,
                                     IF ok THEN RegistryTags(tasks[s].arg[1])
                                     ELSE << >>, Src(s)))
    /\ tasks' = Finish(s)
    /\ UNCHANGED <<user, spawns, app, loopPc, daemon, term, failed_for, help>>

\* a faulty delete_model_call: a failed delete ends without an event
delete_model_call_silent(s) ==
    /\ Running
    /\ tasks[s].kind = "delete_model"
    /\ tasks[s].pc = "start"
    /\ \E ok \in BOOLEAN :
          /\ ok => tasks[s].arg[1] \in daemon
          /\ IF ok
             THEN /\ daemon' = daemon \ {tasks[s].arg[1]}
                  /\ tasks' = [tasks EXCEPT ![s].pc = "list"]
             ELSE /\ tasks' = Finish(s)
                  /\ daemon' = daemon
    /\ chan' = chan
    /\ UNCHANGED <<user, spawns, app, loopPc, term, failed_for, help>>

\* delete_model: client.delete_model(..).await
delete_model_call(s) ==
    /\ Running
    /\ tasks[s].kind = "delete_model"
    /\ tasks[s].pc = "start"
    /\ \E ok \in BOOLEAN :
          /\ ok => tasks[s].arg[1] \in daemon
          /\ IF ok
             THEN /\ daemon' = daemon \ {tasks[s].arg[1]}
                  /\ tasks' = [tasks EXCEPT ![s].pc = "list"]
                  /\ chan' = chan
             ELSE /\ chan' = Append(chan, Event("ModelPullCompleted", FALSE, << >>, Src(s)))
                  /\ tasks' = Finish(s)
                  /\ daemon' = daemon
    /\ UNCHANGED <<user, spawns, app, loopPc, term, failed_for, help>>

\* delete_model: client.list_models().await and the refresh event
delete_model_refresh(s) ==
    /\ Running
    /\ tasks[s].kind = "delete_model"
    /\ tasks[s].pc = "list"
    /\ \E ok \in BOOLEAN :
          chan' = Append(chan, Event("LocalModelsRefreshed", ok,
                                     IF ok THEN ListModels(daemon) ELSE << >>, Src(s)))
    /\ tasks' = Finish(s)
    /\ UNCHANGED <<user, spawns, app, loopPc, daemon, term, failed_for, help>>

\* pull_model: suspend_tui (its error is only printed), the command starts
pull_model_suspend(s) ==
    /\ Running
    /\ tasks[s].kind = "pull_model"
    /\ tasks[s].pc = "start"
    /\ \E o \in Outcomes(suspend_tui(term)) : term' = o.term
    /\ tasks' = [tasks EXCEPT ![s].pc = "command"]
    /\ UNCHANGED <<user, spawns, app, loopPc, chan, daemon, failed_for, help>>

\* pull_model: the command ends, resume_tui, the pull-completion event
pull_model_command(s) ==
    /\ Running
    /\ tasks[s].kind = "pull_model"
    /\ tasks[s].pc = "command"
    /\ \E ok \in BOOLEAN :
          /\ daemon' = IF ok
                       THEN daemon \cup {PulledName(tasks[s].arg[1], tasks[s].arg[2])}
                       ELSE daemon
          /\ chan' = Append(chan, Event("ModelPullCompleted", ok, << >>, Src(s)))
    /\ \E o \in Outcomes(resume_tui(term)) : term' = o.term
    /\ tasks' = [tasks EXCEPT ![s].pc = "list", ![s].sent = 1]
    /\ UNCHANGED <<user, spawns, app, loopPc, failed_for, help>>

\* pull_model: client.list_models().await and the refresh event
pull_model_refresh(s) ==
    /\ Running
    /\ tasks[s].kind = "pull_model"
    /\ tasks[s].pc = "list"
    /\ \E ok \in BOOLEAN :
          chan' = Append(chan, Event("LocalModelsRefreshed", ok,
                                     IF ok THEN ListModels(daemon) ELSE << >>, Src(s)))
    /\ tasks' = Finish(s)
    /\ UNCHANGED <<user, spawns, app, loopPc, daemon, term, failed_for, help>>

\* run_ollama: suspend_tui, then Command::spawn
run_ollama_start(s) ==
    /\ Running
    /\ tasks[s].kind = "run_ollama"
    /\ tasks[s].pc = "start"
    /\ \E o \in Outcomes(suspend_tui(term)) :
          IF ~o.ok
          THEN \* Err(e) => Err(e): the event is sent without resume_tui
               /\ term' = o.term
               /\ chan' = Append(chan, Event("OllamaRunCompleted", FALSE, << >>, Src(s)))
               /\ tasks' = Finish(s)
          ELSE \/ \* the sub-program runs in the foreground
                  /\ term' = o.term
                  /\ chan' = chan
                  /\ tasks' = [tasks EXCEPT ![s].pc = "child"]
               \/ \* spawn failed: resume_tui, then the event
                  /\ \E r \in Outcomes(resume_tui(o.term)) : term' = r.term
                  /\ chan' = Append(chan, Event("OllamaRunCompleted", FALSE, << >>, Src(s)))
                  /\ tasks' = Finish(s)
    /\ UNCHANGED <<user, spawns, app, loopPc, daemon, failed_for, help>>

\* run_ollama: child.wait() returns, resume_tui, the run-completion event
run_ollama_exit(s) ==
    /\ Running
    /\ tasks[s].kind = "run_ollama"
    /\ tasks[s].pc = "child"
    /\ \E ok \in BOOLEAN :
          chan' = Append(chan, Event("OllamaRunCompleted", ok, << >>, Src(s)))
    /\ \E r \in Outcomes(resume_tui(term)) : term' = r.term
    /\ tasks' = Finish(s)
    /\ UNCHANGED <<user, spawns, app, loopPc, daemon, failed_for, help>>

TaskStep(s) ==
    \/ fetch_model_details(s)
    \/ fetch_registry_models(s)
    \/ fetch_registry_tags(s)
    \/ delete_model_call(s)
    \/ delete_model_refresh(s)
    \/ pull_model_suspend(s)
    \/ pull_model_command(s)
    \/ pull_model_refresh(s)
    \/ run_ollama_start(s)
    \/ run_ollama_exit(s)

LoopStep ==
    \/ InitialLoad
    \/ LoopKey
    \/ LoopPollTimeout
    \/ LoopEvent
    \/ LoopDrawRunning
    \/ LoopRecvRunning

Next ==
    \/ InitialLoad
    \/ LoopKey
    \/ LoopPollTimeout
    \/ LoopEvent
    \/ LoopDrawRunning
    \/ LoopRecvRunning
    \/ \E s \in TaskSlots : fetch_model_details(s)
    \/ \E s \in TaskSlots : fetch_registry_models(s)
    \/ \E s \in TaskSlots : fetch_registry_tags(s)
    \/ \E s \in TaskSlots : delete_model_call(s)
    \/ \E s \in TaskSlots : delete_model_refresh(s)
    \/ \E s \in TaskSlots : pull_model_suspend(s)
    \/ \E s \in TaskSlots : pull_model_command(s)
    \/ \E s \in TaskSlots : pull_model_refresh(s)
    \/ \E s \in TaskSlots : run_ollama_start(s)
    \/ \E s \in TaskSlots : run_ollama_exit(s)

Spec == Init /\ [][Next]_vars

(***************************************************************************)
(* Fairness: the scheduler runs every task step and every loop step that   *)
(* stays enabled; a foreground sub-program that was started exits.  Key    *)
(* presses are never forced.                                               *)
(***************************************************************************)
Fairness ==
    /\ WF_vars(InitialLoad)
    /\ WF_vars(LoopPollTimeout)
    /\ WF_vars(LoopEvent)
    /\ WF_vars(LoopDrawRunning)
    /\ WF_vars(LoopRecvRunning)
    /\ \A s \in TaskSlots : WF_vars(TaskStep(s))

LiveSpec == Spec /\ Fairness

(***************************************************************************)
(* The ways out of run_app other than the quit key, and what main does     *)
(* when run_app has returned.  The branch for a closed completion channel  *)
(* is never taken: run_app itself holds the sender tx until it returns.    *)
(***************************************************************************)
\* terminal.draw(..)? at the top of an iteration fails: run_app returns Err
LoopDrawFails ==
    /\ loopPc = "top"
    /\ user.term_fails
    /\ loopPc' = "failed"
    /\ UNCHANGED <<user, spawns, app, tasks, chan, daemon, term, failed_for, help>>

\* select! branch 1: the spawn_blocking poll task ended with a JoinError
LoopInputTaskFails ==
    /\ IterationStart
    /\ user.term_fails
    /\ app' = [StartDetailFetch(app).app EXCEPT !.status_message = "InputTaskPanicked"]
    /\ tasks' = Spawn(tasks, StartDetailFetch(app).spawn)
    /\ loopPc' = "exited"
    /\ UNCHANGED <<user, spawns, chan, daemon, term, failed_for, help>>

\* main after run_app: disable_raw_mode()?, then execute!(LeaveAlternateScreen,
\* DisableMouseCapture)?, then show_cursor()?
restore_terminal(t) ==
    { [ok |-> FALSE, term |-> t],
      [ok |-> FALSE, term |-> [t EXCEPT !.raw = FALSE]],
      [ok |-> TRUE, term |-> [raw |-> FALSE, alt |-> FALSE]] }

\* main: run_app has returned Ok or Err; the terminal is restored and the
\* process ends, which ends the spawned tasks with it
MainRestore ==
    /\ loopPc \in {"exited", "failed"}
    /\ \E o \in Outcomes(restore_terminal(term)) : term' = o.term
    /\ loopPc' = "ended"
    /\ UNCHANGED <<user, spawns, app, tasks, chan, daemon, failed_for, help>>

ExitNext ==
    \/ InitialLoad
    \/ LoopKey
    \/ LoopPollTimeout
    \/ LoopEvent
    \/ LoopDrawRunning
    \/ LoopRecvRunning
    \/ LoopDrawFails
    \/ LoopInputTaskFails
    \/ MainRestore
    \/ \E s \in TaskSlots : TaskStep(s)

ExitSpec == Init /\ [][ExitNext]_vars

(***************************************************************************)
(* handle_app_event on its own: one call of the handler, for every session *)
(* state of a bounded set and every completion event of its type,          *)
(* including the results a Result<Vec<String>> can carry that the registry *)
(* client of this repository never returns (a successful empty list).      *)
(***************************************************************************)
\* the session states handed to the handler
HandlerStates ==
    { [AppState_new EXCEPT !.current_mode = m,
                           !.status_message = "None",
                           !.is_fetching_registry = f,
                           !.install_error = e,
                           !.registry_models = RegistryModels,
                           !.registry_model_list_state = 0,
                           !.selected_registry_model = sel] :
        m \in Modes \ {"RunningOllama"}, f \in BOOLEAN,
        e \in {"None", "Filter"}, sel \in {Nothing, RegistryModels[1]} }

\* the completion events handed to the handler
HandlerEvents ==
    LET src(k, arg) == [kind |-> k, arg |-> arg]
    IN  { Event("RegistryTagsFetched", TRUE, tags,
                src("fetch_registry_tags", <<RegistryModels[1]>>)) :
            tags \in {<< >>, RegistryTags(RegistryModels[1])} }
        \cup { Event("RegistryTagsFetched", FALSE, << >>,
                     src("fetch_registry_tags", <<RegistryModels[1]>>)) }
        \cup { Event("RegistryModelsFetched", TRUE, ms,
                     src("fetch_registry_models", << >>)) :
                 ms \in {<< >>, RegistryModels} }
        \cup { Event("RegistryModelsFetched", FALSE, << >>,
                     src("fetch_registry_models", << >>)) }
        \cup { Event("ModelPullCompleted", ok, << >>,
                     src("pull_model", <<RegistryModels[1], <<"l">>>>)) :
                 ok \in BOOLEAN }

\* the inventories the daemon can list from its start-up models
Inventories == {ListModels(held) : held \in SUBSET InitialInventory(MaxModels)}

\* session states with a local inventory, a typed filter applied to it, a
\* selection within the visible sequence and possibly a cached detail
RefreshStates ==
    UNION { LET f == apply_filter([AppState_new EXCEPT
                         !.models = inv,
                         !.filter_input = text,
                         !.filter_cursor_pos = Len(text),
                         !.status_message = "None",
                         !.current_mode = m])
                vis == get_current_models(f)
            IN { [f EXCEPT !.list_state = i,
                           !.selected_model_details = d] :
                   i \in IF vis = << >> THEN {None} ELSE 0..(Len(vis) - 1),
                   d \in IF vis = << >> THEN {Nothing} ELSE {Nothing, vis[1]} } :
            inv \in Inventories,
            text \in {<< >>, <<"d">>, <<"h">>},
            m \in {"Normal", "Filter", "ConfirmDelete", "Installing"} }

\* the refresh events handed to the handler
RefreshEvents ==
    { Event("LocalModelsRefreshed", TRUE, inv,
            [kind |-> "delete_model", arg |-> <<StartModels[1]>>]) :
        inv \in Inventories }
    \cup { Event("LocalModelsRefreshed", FALSE, << >>,
                 [kind |-> "delete_model", arg |-> <<StartModels[1]>>]) }

\* the calls made: a session state and the event handled in it
HandlerCases ==
    (HandlerStates \X HandlerEvents) \cup (RefreshStates \X RefreshEvents)

HandlerInit ==
    /\ user \in {p \in Profiles : p.name = "install"}
    /\ spawns = 0
    /\ \E c \in HandlerCases : app = c[1] /\ chan = <<c[2]>>
    /\ loopPc = "top"
    /\ tasks = [s \in TaskSlots |-> NoTask]
    /\ daemon = {}
    /\ term = AppTerminal
    /\ failed_for = Nothing
    /\ help = NoHelp

\* the call handle_app_event(event, app)
HandleOneEvent ==
    /\ chan # << >>
    /\ app' = handle_app_event(Head(chan), app)
    /\ chan' = Tail(chan)
    /\ UNCHANGED <<user, spawns, loopPc, tasks, daemon, term, failed_for, help>>

HandlerSpec == HandlerInit /\ [][HandleOneEvent]_vars

(***************************************************************************)
(* Properties                                                              *)
(***************************************************************************)
Visible == get_current_models(app)
SelectedName == get_selected_model_name(app)

\* C1: the local selection is None exactly when the visible sequence is
\* empty, and otherwise an index smaller than its length.
SelectionWithinVisible ==
    IF Visible = << >>
    THEN app.list_state = None
    ELSE app.list_state \in 0..(Len(Visible) - 1)

\* C1 witness: a filter that matches nothing has emptied the visible
\* sequence of a non-empty inventory and the selection is None
FilterEmptiedSelection ==
    /\ app.models # << >>
    /\ app.is_filtered
    /\ Visible = << >>
    /\ app.list_state = None

\* C2: when the completion of a detail fetch for model A is handled while
\* another model B is selected, the cached detail afterwards is not A's.
StaleDetailsNotAttributed ==
    [][(LoopEvent /\ Head(chan).type = "ModelDetailsFetched")
        => ~(/\ get_selected_model_name(app') # Nothing
             /\ get_selected_model_name(app') # Head(chan).src.arg[1]
             /\ app'.selected_model_details = Head(chan).src.arg[1])]_vars

\* C3: the visible sequence is the order-preserving filter of the inventory
\* by the current filter text, and an empty text means no filter is active.
VisibleIsFilterOfInventory ==
    /\ Visible = FilterByName(app.models, app.filter_input)
    /\ app.filter_input = << >> => ~app.is_filtered /\ Visible = app.models

\* C4: after the detail fetch for the selected model failed, no further
\* detail fetch is started for it until the selection changes or the
\* inventory is refreshed.
NoAutomaticRetry ==
    [][\A s \in TaskSlots :
          (tasks[s].kind = "none" /\ tasks'[s].kind = "fetch_model_details")
              => tasks'[s].arg[1] # failed_for]_vars

\* a task ends in this step
TaskFinishes(s) == tasks[s].kind # "none" /\ tasks'[s].kind = "none"
\* the completion events the task has put on the channel when it ends
EventsSentAtFinish(s) == tasks[s].sent + (Len(chan') - Len(chan))

\* C5 as stated: every background task puts exactly one completion event on
\* the channel over its whole run.
ExactlyOneCompletionEvent ==
    [][\A s \in TaskSlots : TaskFinishes(s) => EventsSentAtFinish(s) = 1]_vars

\* C5 amended: every background task puts exactly one completion event on
\* the channel over its whole run, except the pull task, which puts two:
\* its pull-completion event and then the refresh event.
CompletionEventsPerTask ==
    [][\A s \in TaskSlots :
          TaskFinishes(s) =>
              EventsSentAtFinish(s) = IF tasks[s].kind = "pull_model" THEN 2 ELSE 1]_vars

\* C5 witness: a pull task has sent its pull-completion event and still
\* has its refresh event to send
PullSentFirstEvent ==
    \E s \in TaskSlots : tasks[s].kind = "pull_model" /\ tasks[s].sent = 1

\* C6: no step of a background task changes the session state, and every
\* change of the session state is a step of the control loop.
TasksLeaveSessionState ==
    [][/\ (\E s \in TaskSlots : TaskStep(s)) => app' = app
       /\ app' # app => LoopStep]_vars

\* C6 witness: a delete task has delivered its refresh while the session
\* state still shows the deleted model
RefreshDeliveredNotApplied ==
    /\ chan # << >>
    /\ Head(chan).type = "LocalModelsRefreshed"
    /\ Head(chan).ok
    /\ Head(chan).src.kind = "delete_model"
    /\ Head(chan).payload # app.models

\* the run task has released the terminal to the foreground sub-program
RunHoldsTerminal ==
    \E s \in TaskSlots : tasks[s].kind = "run_ollama" /\ tasks[s].pc = "child"

\* the loop steps that draw; the first three also poll the terminal
LoopDraws == LoopKey \/ LoopPollTimeout \/ LoopEvent \/ LoopDrawRunning

\* C7: between the run task's suspend and its resume the control loop
\* neither draws nor polls terminal input.
NoDrawWhileRunHoldsTerminal ==
    [][LoopDraws => ~RunHoldsTerminal]_vars

\* C8: on every path of the run task the run-completion event is sent only
\* with the terminal back in raw mode and on the alternate screen.
RunCompletionAfterReacquire ==
    [][\A s \in TaskSlots :
          (tasks[s].kind = "run_ollama" /\ TaskFinishes(s))
              => term' = AppTerminal]_vars

\* C9: in RunningOllama no key event is handled; handling the
\* run-completion event sets the mode to Normal, success or failure; and
\* RunningOllama is always eventually followed by Normal.
RunReturnsToNormal ==
    /\ [][app.current_mode = "RunningOllama" => ~LoopKey]_vars
    /\ [][(LoopRecvRunning /\ Head(chan).type = "OllamaRunCompleted")
           => app'.current_mode = "Normal"]_vars
    /\ (app.current_mode = "RunningOllama") ~> (app.current_mode = "Normal")

\* C9 witness: a failed run has been handled and the mode is Normal again
FailedRunHandled ==
    app.current_mode = "Normal" /\ app.status_message = "ErrRun"

\* C10: 'yes' in ConfirmDelete leads to Normal and spawns the delete task
\* for the selected model, and the refresh chained to a successful delete
\* is applied: afterwards the inventory does not hold the deleted model.
DeleteFlowRefreshApplied ==
    [][/\ \A s \in TaskSlots :
             (tasks[s].kind = "none" /\ tasks'[s].kind = "delete_model")
                 => /\ app.current_mode = "ConfirmDelete"
                    /\ app'.current_mode = "Normal"
                    /\ tasks'[s].arg[1] = SelectedName
       /\ (/\ chan # << >>
           /\ chan' = Tail(chan)
           /\ Head(chan).type = "LocalModelsRefreshed"
           /\ Head(chan).ok
           /\ Head(chan).src.kind = "delete_model")
              => /\ app'.models = Head(chan).payload
                 /\ \A i \in 1..Len(app'.models) :
                       app'.models[i] # Head(chan).src.arg[1]]_vars

TableTargets(key, a) ==
    LET from == a.current_mode
    IN  IF key = "h" /\ from \notin {"RunningOllama", "Help", "Filter",
                                     "InstallSelectModelFilter"}
        THEN {"Help"}
        ELSE CASE from = "Normal" /\ key = "d" /\ a.list_state # None ->
                      {"ConfirmDelete"}
               [] from = "Normal" /\ key = "i" -> {"InstallSelectModel"}
               [] from = "Normal" /\ key = "Enter" /\ a.list_state # None ->
                      {"RunningOllama"}
               [] from = "Normal" /\ key = "/" -> {"Filter"}
               [] from = "Filter" /\ key \in {"Enter", "Esc"} -> {"Normal"}
               [] from = "ConfirmDelete" /\ key \in {"y", "Esc"} -> {"Normal"}
               [] from = "InstallSelectModel" /\ key = "Enter"
                    /\ a.registry_model_list_state # None -> {"InstallSelectTag"}
               [] from = "InstallSelectModel" /\ key = "/" ->
                      {"InstallSelectModelFilter"}
               [] from = "InstallSelectModel" /\ key \in {"Esc", "q"} -> {"Normal"}
               [] from = "InstallSelectModelFilter" /\ key \in {"Enter", "Esc"} ->
                      {"InstallSelectModel"}
               [] from = "InstallSelectTag" /\ key = "Enter"
                    /\ a.registry_tag_list_state # None -> {"InstallConfirm"}
               [] from = "InstallSelectTag" /\ key \in {"Esc", "q"} ->
                      {"InstallSelectModel"}
               [] from = "InstallConfirm" /\ key = "y" -> {"Installing"}
               [] from = "InstallConfirm" /\ key = "Esc" -> {"InstallSelectTag"}
               [] from = "Help" /\ key \in {"h", "q", "Esc"} -> {a.previous_mode}
               [] OTHER -> {}

\* C12: in every reachable state every key the handler can be given either
\* leaves the mode as it is or leads to the mode the transition table lists
\* for that mode and key, and only in Normal does a key quit.
KeyTransitionsInTable ==
    \A key \in Keys :
        (app.current_mode # "RunningOllama" /\ ~handle_key_event_panics(key, app))
            => LET r == handle_key_event(key, app)
               IN /\ r.app.current_mode # app.current_mode
                        => r.app.current_mode \in TableTargets(key, app)
                  /\ r.quit => app.current_mode = "Normal"

\* C13: right after a key dismissed Help the mode is the mode Help was
\* opened from, whatever events were handled while Help was shown.
DismissRestoresMode ==
    help.dismissed => app.current_mode = help.from

\* C13 witness: Help was opened outside Normal, an event was handled while
\* it was shown, and a key has dismissed it
DismissedAfterEvent ==
    help.dismissed /\ help.events /\ help.from # "Normal"

\* text t with the one-character string c inserted at some position
InsertedInto(t, c) ==
    { SubSeq(t, 1, i) \o <<c>> \o SubSeq(t, i + 1, Len(t)) : i \in 0..Len(t) }

InstallingIgnoresKeys ==
    app.current_mode = "Installing" =>
        \A key \in Keys :
            /\ ~handle_key_event_panics(key, app)
            /\ handle_key_event(key, app) = Stay(app)

\* C16: whenever the detail-fetch in-flight flag is set it is eventually
\* cleared (or the loop has ended), with no key press required.
FetchFlagEventuallyClears ==
    app.is_fetching_details
        ~> (~app.is_fetching_details \/ loopPc \in {"exited", "panicked"})

RECURSIVE NextTimes(_, _)
NextTimes(n, a) == IF n = 0 THEN a ELSE NextTimes(n - 1, next_model(a))

RECURSIVE PreviousTimes(_, _)
PreviousTimes(n, a) == IF n = 0 THEN a ELSE PreviousTimes(n - 1, previous_model(a))

\* C18: with a non-empty visible list of N rows and a selected row, N
\* successive "next" steps bring the selection back to the row it started
\* from, and so do N successive "previous" steps.
NavigationWrapsAround ==
    LET n == Len(get_current_models(app))
    IN (n >= 1 /\ app.list_state # None)
       => /\ NextTimes(n, app).list_state = app.list_state
          /\ PreviousTimes(n, app).list_state = app.list_state

\* A list of at least two rows whose last row was reached by navigating.
SelectionOnLastRow ==
    LET n == Len(get_current_models(app))
    IN n >= 2 /\ app.list_state = n - 1 /\ app.current_mode = "Normal"

\* the visible sequence and the selection that the filter text of a state asks for
Refiltered(a) ==
    LET want == FilterByName(a.models, a.filter_input)
    IN /\ get_current_models(a) = want
       /\ a.list_state = IF want = << >> THEN None ELSE 0

\* C19: in Filter mode every keystroke that inserts a character or is a
\* backspace is handled, and after it the visible sequence is the
\* case-insensitive, order-preserving filter of the inventory by the text it
\* left, with selection 0 if that sequence is non-empty and None if not.
FilterKeystrokeRefilters ==
    app.current_mode = "Filter" =>
        \A key \in FilterChars \cup {"Backspace"} :
            /\ ~handle_key_event_panics(key, app)
            /\ Refiltered(handle_key_event(key, app).app)

\* C20: applying the filter a second time, with the filter text and the
\* inventory left as they are, gives the same visible sequence, the same
\* filtered flag and the same selection as the first application gave.
ApplyFilterIdempotent ==
    LET once == apply_filter(app)
        twice == apply_filter(once)
    IN /\ get_current_models(twice) = get_current_models(once)
       /\ twice.is_filtered = once.is_filtered
       /\ twice.list_state = once.list_state

\* a typed filter text has narrowed a larger inventory to a non-empty
\* visible sequence
FilterNarrowedList ==
    /\ app.current_mode = "Filter"
    /\ app.filter_input # << >>
    /\ app.is_filtered
    /\ Visible # << >>
    /\ Len(Visible) < Len(app.models)
    /\ app.list_state = 0

\* C21: in Normal mode the quit key ends the control loop in the iteration
\* that handles it, and when the loop ends no spawned task is left whose
\* completion event has not been handled.
QuitLeavesNothingPending ==
    /\ [](app.current_mode = "Normal" => handle_key_event("q", app).quit)
    /\ [][(LoopKey /\ app.current_mode = "Normal" /\ app'.should_quit)
            => /\ loopPc' = "exited"
               /\ \A s \in TaskSlots : tasks'[s].kind = "none"
               /\ chan' = << >>]_vars

\* the process is over: main has returned, or a panic has unwound it
ProcessEnded == loopPc \in {"ended", "panicked"}

\* C22: whatever ended the control loop, when the process ends raw mode is
\* off and the alternate screen has been left.
TerminalRestoredAtExit == ProcessEnded => (~term.raw /\ ~term.alt)

\* the modes of the install flow
InstallModes ==
    {"InstallSelectModel", "InstallSelectModelFilter", "InstallSelectTag",
     "InstallConfirm", "Installing"}

\* the registry browse state a fresh entry into the install flow expects
RegistryBrowseClean(a) ==
    /\ a.registry_filter_input = << >>
    /\ ~a.is_registry_filtered
    /\ a.selected_registry_model = Nothing
    /\ a.selected_registry_tag = Nothing

\* C23: every step that takes the mode from the install flow back to Normal
\* (cancel, a registry fetch failure, the end of a pull) leaves the registry
\* filter text empty, the registry-filtered flag false and the chosen model
\* and tag cleared.
InstallExitClearsRegistryState ==
    [][(app.current_mode \in InstallModes /\ app'.current_mode = "Normal")
        => RegistryBrowseClean(app')]_vars

\* a detail fetch for model n has been spawned and its completion event has
\* not been handled: the task still runs, or its event waits in the channel
DetailFetchOutstandingFor(n) ==
    \/ \E s \in TaskSlots :
          tasks[s].kind = "fetch_model_details" /\ tasks[s].arg[1] = n
    \/ \E i \in 1..Len(chan) :
          chan[i].type = "ModelDetailsFetched" /\ chan[i].src.arg[1] = n

\* C24: the control loop never starts a detail fetch for the selected model
\* while an earlier detail fetch for that same model is still outstanding.
OneDetailFetchPerSelection ==
    [][\A s \in TaskSlots :
          (tasks[s].kind = "none" /\ tasks'[s].kind = "fetch_model_details")
              => ~DetailFetchOutstandingFor(tasks'[s].arg[1])]_vars

\* C25: the mode leaves Installing for Normal only in a step that handles a
\* completion event sent by a pull task; an event of any other task (such
\* as the refresh chained to an earlier delete) does not end Installing.
InstallingEndsOnPullEvent ==
    [][(app.current_mode = "Installing" /\ app'.current_mode = "Normal")
        => /\ LoopEvent
           /\ Head(chan).src.kind = "pull_model"]_vars

\* the pull task has suspended the terminal and has not yet resumed it
PullHoldsTerminal ==
    \E s \in TaskSlots : tasks[s].kind = "pull_model" /\ tasks[s].pc = "command"

\* C26: between the pull task's suspend and its resume the control loop
\* neither draws to the terminal nor polls it for input.
NoDrawWhilePullHoldsTerminal ==
    [][LoopDraws => ~PullHoldsTerminal]_vars

\* the loop handles the completion of a detail fetch that failed
HandlesFailedDetails ==
    LoopEvent /\ Head(chan).type = "ModelDetailsFetched" /\ ~Head(chan).ok

\* C27: handling a failed detail-fetch completion clears the cached detail
\* and the in-flight flag, puts the error in the status text, and leaves the
\* mode, the selection, the inventory and the filter state as they were.
FailedDetailsKeepsModeAndSelection ==
    [][HandlesFailedDetails
        => /\ app'.selected_model_details = Nothing
           /\ ~app'.is_fetching_details
           /\ app'.status_message = "ErrDetails"
           /\ app'.current_mode = app.current_mode
           /\ app'.list_state = app.list_state
           /\ app'.models = app.models
           /\ app'.filtered_models = app.filtered_models
           /\ app'.is_filtered = app.is_filtered
           /\ app'.filter_input = app.filter_input
           /\ app'.filter_cursor_pos = app.filter_cursor_pos]_vars

\* a failed detail fetch has been handled outside Normal mode with a filter
\* active: the error is in the status text
FailedDetailsShown ==
    /\ app.status_message = "ErrDetails"
    /\ app.current_mode = "Filter"
    /\ app.is_filtered
    /\ app.list_state # None
    /\ app.selected_model_details = Nothing
    /\ ~app.is_fetching_details

\* C28: handling a failed registry model-list completion sets the
\* install-error text and the mode Normal; handling a failed registry tags
\* completion sets the install-error text and the mode InstallSelectModel;
\* both clear the registry-fetching flag.
RegistryFailureFallsBack ==
    [][(LoopEvent /\ ~Head(chan).ok)
        => /\ Head(chan).type = "RegistryModelsFetched"
                => /\ app'.install_error = "FetchModelsFailed"
                   /\ app'.current_mode = "Normal"
                   /\ ~app'.is_fetching_registry
           /\ Head(chan).type = "RegistryTagsFetched"
                => /\ app'.install_error = "FetchTagsFailed"
                   /\ app'.current_mode = "InstallSelectModel"
                   /\ ~app'.is_fetching_registry]_vars

\* a failed tags fetch has been handled: back on the model list with the
\* error shown
TagsFailureShown ==
    /\ app.install_error = "FetchTagsFailed"
    /\ app.current_mode = "InstallSelectModel"
    /\ ~app.is_fetching_registry
    /\ app.selected_registry_model # Nothing

\* the loop takes from the channel the event of the given type that reports
\* a failure
TakesFailure(type) ==
    /\ chan # << >>
    /\ chan' = Tail(chan)
    /\ Head(chan).type = type
    /\ ~Head(chan).ok

\* C29: when the loop has taken the failure event of a delete or of a pull,
\* the install-error text is set and the mode is Normal; and when it takes a
\* refresh failure, the install-error text is kept and the refresh error is
\* put in the status text only if no install-error is set.
DeleteOrPullFailureSurfaces ==
    [][/\ TakesFailure("ModelPullCompleted")
            => /\ app'.install_error = "PullFailed"
               /\ app'.current_mode = "Normal"
       /\ TakesFailure("LocalModelsRefreshed")
            => /\ app'.install_error = app.install_error
               /\ app.install_error # "None"
                    => app'.status_message = StartDetailFetch(app).app.status_message]_vars

\* C30: in Filter mode confirm (Enter) returns to Normal and leaves the
\* filter text, the filtered flag, the visible sequence and the selection as
\* they were, the filter staying active when its text is non-empty; cancel
\* (Esc) returns to Normal with the filter text empty, the cursor at 0, the
\* filtered flag false, the visible sequence the full inventory and the
\* selection 0, or None for an empty inventory.
FilterConfirmKeepsCancelClears ==
    app.current_mode = "Filter" =>
        LET e == handle_key_event("Enter", app).app
            c == handle_key_event("Esc", app).app
        IN /\ ~handle_key_event_panics("Enter", app)
           /\ e.current_mode = "Normal"
           /\ e.filter_input = app.filter_input
           /\ e.is_filtered = app.is_filtered
           /\ get_current_models(e) = get_current_models(app)
           /\ e.list_state = app.list_state
           /\ app.filter_input # << >> => e.is_filtered
           /\ ~handle_key_event_panics("Esc", app)
           /\ c.current_mode = "Normal"
           /\ c.filter_input = << >>
           /\ c.filter_cursor_pos = 0
           /\ ~c.is_filtered
           /\ get_current_models(c) = app.models
           /\ c.list_state = IF app.models = << >> THEN None ELSE 0

\* a typed filter has been confirmed: Normal mode with the filter active
\* on a narrowed list
FilterConfirmed ==
    /\ app.current_mode = "Normal"
    /\ app.status_message = "Filter"
    /\ app.is_filtered
    /\ app.filter_input # << >>
    /\ Len(Visible) < Len(app.models)

\* what a navigation step from a to b has to satisfy
NavigationEffect(a, b) ==
    IF get_current_models(a) = << >>
    THEN b.list_state = None
    ELSE IF b.list_state = a.list_state /\ a.selected_model_details # Nothing
         THEN /\ b.selected_model_details = a.selected_model_details
              /\ b.status_message = a.status_message
              /\ b.is_fetching_details = a.is_fetching_details
         ELSE /\ b.selected_model_details = Nothing
              /\ b.status_message = "Fetching"
              /\ ~b.is_fetching_details

\* C31: a navigation step that lands on the index already selected while a
\* detail is cached leaves selection, cached detail, status text and
\* in-flight flag unchanged; a step that changes the index or finds no
\* cached detail clears the cached detail, sets the fetching status and
\* resets the in-flight flag; with an empty visible sequence the step sets
\* the selection to None.
NavigationPreparesFetch ==
    /\ NavigationEffect(app, next_model(app))
    /\ NavigationEffect(app, previous_model(app))

\* navigation has moved the selection to another row and prepared its fetch
NavigatedToNewRow ==
    /\ app.current_mode = "Normal"
    /\ app.list_state # None /\ app.list_state >= 1
    /\ app.selected_model_details = Nothing
    /\ app.status_message = "Fetching"
    /\ ~app.is_fetching_details

\* the event handler is called with a successful refresh
HandlesRefresh ==
    /\ LoopEvent \/ HandleOneEvent
    /\ Head(chan).type = "LocalModelsRefreshed"
    /\ Head(chan).ok

\* C32: handling a successful refresh replaces the inventory with the
\* delivered list, re-applies the active filter to it, sets the selection to
\* min(previous index, new visible length - 1), 0 if nothing was selected
\* and None if the new visible sequence is empty, and sets the mode Normal.
RefreshReplacesInventory ==
    [][HandlesRefresh
        => LET want == IF app.is_filtered
                       THEN FilterByName(Head(chan).payload, app.filter_input)
                       ELSE Head(chan).payload
           IN /\ app'.models = Head(chan).payload
              /\ get_current_models(app') = want
              /\ app'.list_state =
                    IF want = << >> THEN None
                    ELSE Min(IF app.list_state = None THEN 0 ELSE app.list_state,
                             Len(want) - 1)
              /\ app'.current_mode = "Normal"]_vars

\* a refresh has been handled with a filter active: the filter narrows the
\* new inventory and the selection stayed on a later row
RefreshedUnderFilter ==
    /\ chan = << >>
    /\ app.current_mode = "Normal"
    /\ app.is_filtered
    /\ Len(get_current_models(app)) < Len(app.models)
    /\ app.list_state # None /\ app.list_state >= 1

\* C33: whenever a detail record is cached it is the record of the model
\* currently selected; a refresh that puts another model at the selected
\* index does not keep the old model's record for it.
CachedDetailIsOfSelected ==
    app.selected_model_details # Nothing
        => app.selected_model_details = get_selected_model_name(app)

\* C34: no completion event is lost: whenever the loop takes an event from
\* the channel, the session state afterwards is the one the event handler
\* gives for that event, also when the mode is RunningOllama.
NoEventDropped ==
    [][(chan # << >> /\ chan' = Tail(chan))
        => app' = IF Head(chan).type = "OllamaRunCompleted"
                  THEN handle_ollama_run_completion(Head(chan).ok, app)
                  ELSE handle_app_event(Head(chan), StartDetailFetch(app).app)]_vars

\* a delete request is waiting for its answer: the confirmation is shown,
\* or Help has been opened on top of it
Confirming(a) ==
    \/ a.current_mode = "ConfirmDelete"
    \/ a.current_mode = "Help" /\ a.previous_mode = "ConfirmDelete"

\* C35: the name given to the delete task by 'yes' is the name selected
\* when the delete request was made.  The confirmation is entered only by a
\* key in Normal, which keeps the selected model; no key or completion event
\* handled while it waits (Help opened and dismissed included) changes the
\* selected model; and the delete task is spawned only from ConfirmDelete
\* with the model selected there.
DeleteTargetsRequestedModel ==
    [][/\ (~Confirming(app) /\ Confirming(app'))
            => /\ LoopKey
               /\ app.current_mode = "Normal"
               /\ app'.current_mode = "ConfirmDelete"
               /\ get_selected_model_name(app') = get_selected_model_name(app)
               /\ get_selected_model_name(app') # Nothing
       /\ (Confirming(app) /\ Confirming(app'))
            => get_selected_model_name(app') = get_selected_model_name(app)
       /\ \A s \in TaskSlots :
             (tasks[s].kind = "none" /\ tasks'[s].kind = "delete_model")
                 => /\ app.current_mode = "ConfirmDelete"
                    /\ tasks'[s].arg[1] = get_selected_model_name(app)]_vars

\* 'yes' has spawned the delete task for the second row, the selected one
DeleteSpawnedForSelected ==
    /\ app.status_message = "Deleting"
    /\ app.list_state = 1
    /\ \E s \in TaskSlots :
          /\ tasks[s].kind = "delete_model"
          /\ tasks[s].pc = "start"
          /\ tasks[s].arg[1] = get_selected_model_name(app)

\* the elements of a sequence
Range(seq) == {seq[i] : i \in 1..Len(seq)}

\* C36: the model and the tag handed to the pull task belong together: a
\* tag list shown while a model is chosen is the list fetched for that
\* model, and the tag the pull task gets is one of that model's tags.
PullTagBelongsToModel ==
    /\ []((/\ app.current_mode \in {"InstallSelectTag", "InstallConfirm"}
            /\ app.selected_registry_model # Nothing
            /\ app.registry_tags # << >>)
              => app.registry_tags = RegistryTags(app.selected_registry_model))
    /\ [][\A s \in TaskSlots :
             (tasks[s].kind = "none" /\ tasks'[s].kind = "pull_model")
                 => tasks'[s].arg[2] \in Range(RegistryTags(tasks'[s].arg[1]))]_vars

\* the loop hands an event of the given type to handle_app_event
Handles(type) == LoopEvent /\ Head(chan).type = type

\* C37: a registry completion changes the mode only while the session is
\* in the install step that asked for it: a model-list completion outside
\* InstallSelectModel and a tags completion outside InstallSelectTag
\* leave the mode as it was.
RegistryCompletionKeepsForeignMode ==
    /\ [][(Handles("RegistryModelsFetched")
             /\ app.current_mode # "InstallSelectModel")
               => app'.current_mode = app.current_mode]_vars
    /\ [][(Handles("RegistryTagsFetched")
             /\ app.current_mode # "InstallSelectTag")
               => app'.current_mode = app.current_mode]_vars

\* C38: a refresh completion changes the mode only when the mode is
\* Installing; handled in any other mode it leaves the mode and the filter
\* text being typed as they were.
RefreshKeepsForeignMode ==
    [][(Handles("LocalModelsRefreshed") /\ app.current_mode # "Installing")
          => /\ app'.current_mode = app.current_mode
             /\ app'.filter_input = app.filter_input]_vars

\* C39: whenever the session is in InstallConfirm both the chosen registry
\* model and the chosen tag are present, so confirming never finds one of
\* them missing.
InstallConfirmHasModelAndTag ==
    app.current_mode = "InstallConfirm"
        => /\ app.selected_registry_model # Nothing
           /\ app.selected_registry_tag # Nothing

\* C40: the branches marked unreachable are never executed: no key is
\* handed to handle_key_event while the mode is RunningOllama, and a
\* run-completion event is taken from the channel only while the mode is
\* RunningOllama.
UnreachableBranchesNeverTaken ==
    /\ [][LoopKey => StartDetailFetch(app).app.current_mode # "RunningOllama"]_vars
    /\ [][(chan # << >> /\ chan' = Tail(chan)
             /\ Head(chan).type = "OllamaRunCompleted")
               => app.current_mode = "RunningOllama"]_vars

\* C40 witness: a failed run has been taken and handled after the detail
\* completion that arrived during the run was taken in RunningOllama:
\* nothing is outstanding and the fetch flag is still set
RunTakenAfterForeignEvent ==
    /\ app.current_mode = "Normal"
    /\ app.status_message = "ErrRun"
    /\ app.is_fetching_details
    /\ Outstanding = 0
    /\ chan = << >>


====
